---- MODULE Spec2Model ----
(***************************************************************************)
(* A model of the misc_benches benchmark harnesses: the seeded generator   *)
(* and the batch generators (src/util.rs, benches/lerp.rs), the cache-tier *)
(* sizing functions, the candidate loops of every group, and the group     *)
(* functions that criterion drives (benches/benches.rs, easing.rs,         *)
(* lerp.rs, normalize.rs).                                                 *)
(*                                                                         *)
(* What is scaled down.  size_of::<T>() of a group's record type is a      *)
(* compile-time fact; the model ranges over record footprints (sizeOf) so  *)
(* that the L1-sized counts are 0..MaxCount.  ITERATIONS and the two       *)
(* smoothstep COUNTs are scaled to the bounds below.  StdRng is a library  *)
(* generator: it is modelled as a deterministic stream over RngModulus     *)
(* words, and the model ranges over NumStreams such streams (salt).        *)
(* criterion is the environment: it runs the sub-benchmarks of a group in  *)
(* code order, skips the ones its command-line filter rejects, and calls   *)
(* the timed closure of the others 1..MaxIters times.                      *)
(***************************************************************************)
EXTENDS Integers, Naturals, Sequences, FiniteSets, TLC

\* ---------------------------------------------------------------- bounds
MaxCount == 2
MaxIters == 2
MaxThreads == 2
MaxIterations == 2
NumStreams == 2
RngModulus == 16
MaxFootprint == 96

\* ------------------------------------------------------ program constants
SEED == 1234
L1_BYTES == 16 * 1024
L2_BYTES == 512 * 1024
L3_BYTES == 16 * 1024 * 1024
RAM_BYTES == 512 * 1024 * 1024
\* const ITERATIONS: u64 = 100_000_000, scaled down
ITERATIONS == MaxIterations
\* easing.rs: const COUNT = 32 * 1024 and 4 * 1024, scaled down
SMOOTHSTEP_COUNT == MaxCount + 1
SMOOTHSTEP_INDIRECT_COUNT == MaxCount + 1

VARIABLES
    salt,              \* which stream the library generator produces
    sizeOf,            \* size_of::<T>() of the record type of the groups
    max_thread_count,  \* rand: thread::available_parallelism() or 1; 0 outside rand
    binary,            \* the bench binary that is running, or "none"
    ran,               \* the bench binaries that have finished, in order
    todo,              \* the groups of the binary still to run
    group,             \* the group function that is running, or "none"
    param,             \* index of the group's current parameterization
    sub,               \* index of the current sub-benchmark
    iters,             \* timed iterations made of the current sub-benchmark
    count,             \* the element count (or byte size) of the parameterization
    rng,               \* the group's generator
    params,            \* the group's parameter structs: name -> [dst, src]
    drawn,             \* the two arrays random_duplicate_quat_arrays drew
    throughput,        \* the throughput the group declared
    sink,              \* the values handed to black_box by the last timed iteration
    work,              \* what the last timed iteration did: writes, bytes, draws
    registered,        \* labels bench_function was called with (this parameterization)
    invoked,           \* the timed invocations made (this parameterization)
    workers,           \* rand: the threads of the timed iteration in progress
    joined,            \* rand: how many of them the main thread has joined
    built,             \* the input batches transform_normalize built, per binary
    crashed,           \* a panic has ended the process
    szT, szL1, szL2, szPc,  \* the sizing functions applied to a footprint
    host,              \* system: what sysinfo can tell about the host
    printed,           \* system: the lines printed so far
    probePc            \* system: the position in the probe

vars == << salt, sizeOf, max_thread_count, binary, ran, todo, group, param, sub,
           iters, count, rng, params, drawn, throughput, sink, work, registered,
           invoked, workers, joined, built, crashed, szT, szL1, szL2, szPc,
           host, printed, probePc >>

harnessVars == << salt, sizeOf, max_thread_count, binary, ran, todo, group, param,
                  sub, iters, count, rng, params, drawn, throughput, sink, work,
                  registered, invoked, workers, joined, built, crashed >>

sizingVars == << szT, szL1, szL2, szPc >>

probeVars == << host, printed, probePc >>

Min(a, b) == IF a < b THEN a ELSE b

\* ------------------------------------------------------ cache-tier sizing
\* a plausible slip: a decimal kilobyte
l1_sized_count_decimal(size) == (16 * 1000) \div size

\* src/util.rs: (16 * 1024) / size_of::<T>()
l1_sized_count(size) == (16 * 1024) \div size

\* src/util.rs: (512 * 1024) / size_of::<T>()
l2_sized_count(size) == (512 * 1024) \div size

\* benches/benches.rs keeps its own copy
benches_l1_sized_count(size) == (16 * 1024) \div size

\* -------------------------------------------------------------- generator
\* StdRng::seed_from_u64: the state the seed expands to
seed_from_u64(seed) == (seed + salt) % RngModulus

\* one step of the stream; the word drawn is the new state
next_u64(s) == (5 * s + 3) % RngModulus

\* the stream advanced n times, as a map of generator states (the n steps are
\* split in halves to keep the evaluation shallow)
Advance[n \in Nat] ==
    [s \in 0..(RngModulus - 1) |->
        IF n = 0 THEN s
        ELSE IF n = 1 THEN next_u64(s)
        ELSE Advance[n - (n \div 2)][Advance[n \div 2][s]]]

\* the generator after n draws
RngAfter(s, n) == Advance[n][s]

\* the n words drawn from a generator, in order, as a map of generator states
Stream[n \in Nat] ==
    [s \in 0..(RngModulus - 1) |->
        IF n = 0 THEN << >>
        ELSE IF n = 1 THEN << next_u64(s) >>
        ELSE LET a == Stream[n \div 2][s]
             IN  a \o Stream[n - (n \div 2)][a[Len(a)]]]

\* the n words the next n draws of generator s give
Draws(s, n) == Stream[n][s]

\* the generator after the draws d were made from generator s
RngPast(s, d) == IF d = << >> THEN s ELSE d[Len(d)]

\* rng.gen::<bool>(): the top bit of the word
GenBool(w) == 2 * w >= RngModulus

\* ----------------------------------------------------------------- values
\* A quaternion is a direction v and a length drift e: e = 0 is unit length,
\* e = 1 is within the 0.0001 tolerance of it, e = 2 is outside.
MaxDrift == 2

QuatIdentity == [v |-> 0, e |-> 0]

\* Standard samples a unit quaternion
SampleQuat(w) == [v |-> w, e |-> 0]

\* l * r
QuatMul(l, r) == [v |-> (l.v + r.v) % RngModulus, e |-> Min(MaxDrift, l.e + r.e + 1)]

\* q.normalize()
QuatNormalize(q) == [q EXCEPT !.e = 0]

\* Transform::IDENTITY
TransformIdentity == [translation |-> 0, rotation |-> QuatIdentity, scale |-> 1]

\* Transform::from_rotation
from_rotation(q) == [translation |-> 0, rotation |-> q, scale |-> 1]

\* l.transform_point(p)
transform_point(l, p) == (l.translation + (l.rotation.v + 1) * l.scale * p) % RngModulus

\* -------------------------------------------------------- batch generators
\* src/util.rs random_array: Standard.sample_iter(rng).take(count).collect()
random_array(r, n) ==
    LET d == Draws(r, n)
    IN  [arr |-> [i \in 1..n |-> d[i]], rng |-> RngPast(r, d)]

\* src/util.rs random_transform_array
random_transform_array(r, n) ==
    LET d == Draws(r, n)
    IN  [arr |-> [i \in 1..n |-> from_rotation(SampleQuat(d[i]))],
         rng |-> RngPast(r, d)]

\* benches/benches.rs keeps its own copies of both
benches_random_array(r, n) ==
    LET d == Draws(r, n)
    IN  [arr |-> [i \in 1..n |-> d[i]], rng |-> RngPast(r, d)]

\* a plausible slip: the generator is advanced once before the batch is drawn
benches_random_transform_array_skips(r, n) ==
    LET d == Draws(next_u64(r), n)
    IN  [arr |-> [i \in 1..n |-> from_rotation(SampleQuat(d[i]))],
         rng |-> RngPast(next_u64(r), d)]

benches_random_transform_array(r, n) ==
    LET d == Draws(r, n)
    IN  [arr |-> [i \in 1..n |-> from_rotation(SampleQuat(d[i]))],
         rng |-> RngPast(r, d)]

\* benches/lerp.rs random_quat: three gen_range draws r0, r1, r2
random_quat(r) ==
    LET r0 == RngAfter(r, 1)
        r1 == RngAfter(r, 2)
        r2 == RngAfter(r, 3)
    IN  [q |-> [v |-> (r0 + 3 * r1 + 5 * r2) % RngModulus, e |-> 0],
         rng |-> r2]

\* benches/lerp.rs random_quat_array: repeat_with(random_quat).take(count)
random_quat_array(r, n) ==
    LET d == Draws(r, 3 * n)
    IN  [arr |-> [i \in 1..n |-> random_quat(IF i = 1 THEN r ELSE d[3 * (i - 1)]).q],
         rng |-> RngPast(r, d)]

\* a plausible slip: the coin overwrites the second array with the first
random_duplicate_quat_arrays_second(r, n) ==
    LET l == random_quat_array(r, n)
        rr == random_quat_array(l.rng, n)
        d == Draws(rr.rng, n)
        coin(i) == GenBool(d[i])
    IN  [l |-> l.arr,
         r |-> [i \in 1..n |-> IF coin(i) THEN l.arr[i] ELSE rr.arr[i]],
         l0 |-> l.arr,
         r0 |-> rr.arr,
         rng |-> RngPast(rr.rng, d)]

\* benches/lerp.rs random_duplicate_quat_arrays: l and r are drawn, then for
\* each index a coin decides whether l[i] is overwritten with r[i].
\* l0 and r0 are the arrays as they were drawn.
random_duplicate_quat_arrays(r, n) ==
    LET l == random_quat_array(r, n)
        rr == random_quat_array(l.rng, n)
        d == Draws(rr.rng, n)
        coin(i) == GenBool(d[i])
    IN  [l |-> [i \in 1..n |-> IF coin(i) THEN rr.arr[i] ELSE l.arr[i]],
         r |-> rr.arr,
         l0 |-> l.arr,
         r0 |-> rr.arr,
         rng |-> RngPast(rr.rng, d)]

\* Quat::from_xyzw(|x|, |y|, |z|, |w|): the directions with no negative
\* component are the even ones
QuatAbs(q) == [q EXCEPT !.v = 2 * (q.v \div 2)]

\* benches/lerp.rs random_positive_quat_array
random_positive_quat_array(r, n) ==
    LET a == random_quat_array(r, n)
    IN  [arr |-> [i \in 1..n |-> QuatAbs(a.arr[i])], rng |-> a.rng]

\* --------------------------------------------------------------- candidates
\* A candidate takes a parameter struct [dst, src] (src: the sequence of its
\* input arrays) and yields the struct after the call, the number of output
\* elements it wrote, and whether an index was out of bounds (a panic).

\* for i in 0..dst.len() { dst[i] = vals[i] }, where indexing the inputs is in
\* bounds for i <= limit only: the writes before the panic are made
IndexLoop(p, limit, vals) ==
    [dst |-> [i \in 1..Len(p.dst) |-> IF i <= limit THEN vals[i] ELSE p.dst[i]],
     src |-> p.src,
     writes |-> Min(Len(p.dst), limit),
     panicked |-> limit < Len(p.dst)]

\* the indices a loop over dst reaches when its inputs hold limit elements
Reached(p, limit) == 1..Min(Len(p.dst), limit)

\* benches.rs / normalize.rs mul_normalize_false
mul_normalize_false(l, r) ==
    [translation |-> transform_point(l, r.translation),
     rotation |-> QuatMul(l.rotation, r.rotation),
     scale |-> (l.scale * r.scale) % RngModulus]

\* benches.rs / normalize.rs mul_normalize_true
mul_normalize_true(l, r) ==
    [translation |-> transform_point(l, r.translation),
     rotation |-> QuatNormalize(QuatMul(l.rotation, r.rotation)),
     scale |-> (l.scale * r.scale) % RngModulus]

\* the call f(&src[0][i], &src[1][i]) of the generic F
CallMul(f, l, r) ==
    CASE f = "mul_normalize_false" -> mul_normalize_false(l, r)
      [] f = "mul_normalize_true" -> mul_normalize_true(l, r)

\* transform_normalize_inner: dst[i] = f(&src[0][i], &src[1][i])
transform_normalize_inner(p, f) ==
    LET limit == Min(Len(p.src[1]), Len(p.src[2]))
    IN  IndexLoop(p, limit,
                  [i \in Reached(p, limit) |-> CallMul(f, p.src[1][i], p.src[2][i])])

transform_normalize_false(p) == transform_normalize_inner(p, "mul_normalize_false")

transform_normalize_true(p) == transform_normalize_inner(p, "mul_normalize_true")

\* Transform::rotate_axis: rotation = Quat::from_axis_angle(axis, angle) * rotation
rotate_axis(t, axis, angle) ==
    [t EXCEPT !.rotation = QuatMul([v |-> (axis + angle) % RngModulus, e |-> 0], @)]

\* normalize.rs FastRenormalize: self * (0.5 * (3.0 - length_squared))
fast_renormalize(q) == [q EXCEPT !.e = @ \div 2]

\* *dst = src; dst.rotate_axis(axis, angle)
rotate_axis_normalize_false(dst, src, axis, angle) == rotate_axis(src, axis, angle)

\* ... dst.rotation = dst.rotation.normalize()
rotate_axis_normalize_true(dst, src, axis, angle) ==
    [rotate_axis(src, axis, angle) EXCEPT !.rotation = QuatNormalize(@)]

\* ... if (1.0 - l).abs() > 0.0001 { dst.rotation = dst.rotation / l.sqrt() }
rotate_axis_normalize_reactive(dst, src, axis, angle) ==
    LET t == rotate_axis(src, axis, angle)
    IN  IF t.rotation.e > 1 THEN [t EXCEPT !.rotation = [@ EXCEPT !.e = 0]] ELSE t

\* ... dst.rotation = dst.rotation.fast_renormalize()
rotate_axis_normalize_fast(dst, src, axis, angle) ==
    [rotate_axis(src, axis, angle) EXCEPT !.rotation = fast_renormalize(@)]

\* the call f(&mut dst[i], src[i], axis[i], angle[i]) of the generic F
CallRotate(f, dst, src, axis, angle) ==
    CASE f = "rotate_axis_normalize_false" -> rotate_axis_normalize_false(dst, src, axis, angle)
      [] f = "rotate_axis_normalize_true" -> rotate_axis_normalize_true(dst, src, axis, angle)
      [] f = "rotate_axis_normalize_reactive" ->
            rotate_axis_normalize_reactive(dst, src, axis, angle)
      [] f = "rotate_axis_normalize_fast" -> rotate_axis_normalize_fast(dst, src, axis, angle)

\* rotate_axis_normalize_inner: f(&mut dst[i], src[i], axis[i], angle[i])
rotate_axis_normalize_inner(p, f) ==
    LET limit == Min(Len(p.src[1]), Min(Len(p.src[2]), Len(p.src[3])))
    IN  IndexLoop(p, limit,
                  [i \in Reached(p, limit) |->
                      CallRotate(f, p.dst[i], p.src[1][i], p.src[2][i], p.src[3][i])])

rotate_axis_normalize_false_outer(p) ==
    rotate_axis_normalize_inner(p, "rotate_axis_normalize_false")

rotate_axis_normalize_true_outer(p) ==
    rotate_axis_normalize_inner(p, "rotate_axis_normalize_true")

rotate_axis_normalize_reactive_outer(p) ==
    rotate_axis_normalize_inner(p, "rotate_axis_normalize_reactive")

rotate_axis_normalize_fast_outer(p) ==
    rotate_axis_normalize_inner(p, "rotate_axis_normalize_fast")

\* dst.rotation = src.rotation
single_normalize_false(dst, src) == [dst EXCEPT !.rotation = src.rotation]

\* dst.rotation = src.rotation.normalize()
single_normalize_true(dst, src) == [dst EXCEPT !.rotation = QuatNormalize(src.rotation)]

\* a plausible slip: no else branch, as in rotate_axis_normalize_reactive
single_normalize_reactive_no_else(dst, src) ==
    IF src.rotation.e > 1
    THEN [dst EXCEPT !.rotation = [src.rotation EXCEPT !.e = 0]]
    ELSE dst

\* if (1.0 - l).abs() > 0.0001 { src.rotation / l.sqrt() } else { src.rotation }
single_normalize_reactive(dst, src) ==
    IF src.rotation.e > 1
    THEN [dst EXCEPT !.rotation = [src.rotation EXCEPT !.e = 0]]
    ELSE [dst EXCEPT !.rotation = src.rotation]

\* dst.rotation = src.rotation.fast_renormalize()
single_normalize_fast(dst, src) == [dst EXCEPT !.rotation = fast_renormalize(src.rotation)]

\* the call f(&mut dst[i], src[i]) of the generic F
CallSingle(f, dst, src) ==
    CASE f = "single_normalize_false" -> single_normalize_false(dst, src)
      [] f = "single_normalize_true" -> single_normalize_true(dst, src)
      [] f = "single_normalize_reactive" -> single_normalize_reactive(dst, src)
      [] f = "single_normalize_fast" -> single_normalize_fast(dst, src)

\* single_normalize_inner: f(&mut dst[i], src[i])
single_normalize_inner(p, f) ==
    IndexLoop(p, Len(p.src[1]),
              [i \in Reached(p, Len(p.src[1])) |-> CallSingle(f, p.dst[i], p.src[1][i])])

single_normalize_false_outer(p) == single_normalize_inner(p, "single_normalize_false")

single_normalize_true_outer(p) == single_normalize_inner(p, "single_normalize_true")

single_normalize_reactive_outer(p) == single_normalize_inner(p, "single_normalize_reactive")

single_normalize_fast_outer(p) == single_normalize_inner(p, "single_normalize_fast")

\* src_alpha: 0.5, in halves
SRC_ALPHA_HALVES == 1

\* the blend of two directions by a halves
BlendDir(l, r, a) == ((2 - a) * l.v + a * r.v) \div 2

\* lerp.rs quat_lerp: the component-wise blend, not renormalized
quat_lerp(l, r, a) ==
    [v |-> BlendDir(l, r, a), e |-> IF l.v = r.v THEN l.e ELSE MaxDrift]

\* lerp.rs quat_nlerp: Quat::lerp renormalizes
quat_nlerp(l, r, a) == [v |-> BlendDir(l, r, a), e |-> 0]

\* lerp.rs quat_slerp
quat_slerp(l, r, a) == [v |-> BlendDir(l, r, a), e |-> IF l.v = r.v THEN l.e ELSE 0]

\* the call f(*l, *r, params.src_alpha) of the generic F
CallQuat(f, l, r, a) ==
    CASE f = "quat_lerp" -> quat_lerp(l, r, a)
      [] f = "quat_nlerp" -> quat_nlerp(l, r, a)
      [] f = "quat_slerp" -> quat_slerp(l, r, a)

\* a plausible slip: the result is stored through the first input array
quat_func_into_input(p, f) ==
    LET n == Min(Len(p.dst), Min(Len(p.src[1]), Len(p.src[2])))
        out == [i \in 1..Len(p.src[1]) |->
                    IF i <= n THEN CallQuat(f, p.src[1][i], p.src[2][i], SRC_ALPHA_HALVES)
                    ELSE p.src[1][i]]
    IN  [dst |-> p.dst, src |-> << out, p.src[2] >>, writes |-> n, panicked |-> FALSE]

\* lerp.rs quat_func: dst.iter_mut().zip(src_quat[0]).zip(src_quat[1]); a zip
\* stops at the shortest of the three and never panics
quat_func(p, f) ==
    LET n == Min(Len(p.dst), Min(Len(p.src[1]), Len(p.src[2])))
    IN  [dst |-> [i \in 1..Len(p.dst) |->
                    IF i <= n THEN CallQuat(f, p.src[1][i], p.src[2][i], SRC_ALPHA_HALVES)
                    ELSE p.dst[i]],
         src |-> p.src,
         writes |-> n,
         panicked |-> FALSE]

quat_loop_lerp(p) == quat_func(p, "quat_lerp")

quat_loop_nlerp(p) == quat_func(p, "quat_nlerp")

quat_loop_slerp(p) == quat_func(p, "quat_slerp")

\* easing.rs: (3.0 - (2.0 * t)) * t * t, t a fixed-point fraction of RngModulus
smoothstep_poly(t) == ((3 * RngModulus - 2 * t) * t * t) \div (RngModulus * RngModulus)

\* easing.rs internal_smoothstep_noinline
internal_smoothstep_noinline(t) ==
    ((3 * RngModulus - 2 * t) * t * t) \div (RngModulus * RngModulus)

\* smoothstep_explicit: dst[i] = (3.0 - (2.0 * t)) * t * t, t = src[i]
smoothstep_explicit(p) ==
    IndexLoop(p, Len(p.src[1]),
              [i \in Reached(p, Len(p.src[1])) |-> smoothstep_poly(p.src[1][i])])

\* smoothstep_unit: SmoothStep.sample_unchecked(t)
smoothstep_unit(p) ==
    IndexLoop(p, Len(p.src[1]),
              [i \in Reached(p, Len(p.src[1])) |-> smoothstep_poly(p.src[1][i])])

\* smoothstep_noinline: internal_smoothstep_noinline(t)
smoothstep_noinline(p) ==
    IndexLoop(p, Len(p.src[1]),
              [i \in Reached(p, Len(p.src[1])) |-> internal_smoothstep_noinline(p.src[1][i])])

\* smoothstep_enum: EaseFunction::SmoothStep.sample_unchecked(t)
smoothstep_enum(p) ==
    IndexLoop(p, Len(p.src[1]),
              [i \in Reached(p, Len(p.src[1])) |-> smoothstep_poly(p.src[1][i])])

\* the iterations of an indirect loop before src[index[i]] is out of bounds;
\* src is p.src[1], index is p.src[2], index values are 0-based
IndirectLimit(p) ==
    LET bad == {i \in 1..Len(p.dst) :
                    i > Len(p.src[2]) \/ p.src[2][i] >= Len(p.src[1])}
    IN  IF bad = {} THEN Len(p.dst)
        ELSE (CHOOSE i \in bad : \A j \in bad : i <= j) - 1

\* smoothstep_indirect_explicit: t = src[index[i]]; dst[i] = (3.0 - (2.0 * t)) * t * t
smoothstep_indirect_explicit(p) ==
    IndexLoop(p, IndirectLimit(p),
              [i \in Reached(p, IndirectLimit(p)) |->
                  smoothstep_poly(p.src[1][p.src[2][i] + 1])])

\* smoothstep_indirect_unit
smoothstep_indirect_unit(p) ==
    IndexLoop(p, IndirectLimit(p),
              [i \in Reached(p, IndirectLimit(p)) |->
                  smoothstep_poly(p.src[1][p.src[2][i] + 1])])

\* smoothstep_indirect_noinline
smoothstep_indirect_noinline(p) ==
    IndexLoop(p, IndirectLimit(p),
              [i \in Reached(p, IndirectLimit(p)) |->
                  internal_smoothstep_noinline(p.src[1][p.src[2][i] + 1])])

\* smoothstep_indirect_enum
smoothstep_indirect_enum(p) ==
    IndexLoop(p, IndirectLimit(p),
              [i \in Reached(p, IndirectLimit(p)) |->
                  smoothstep_poly(p.src[1][p.src[2][i] + 1])])

\* A byte buffer vec![b; n] is kept as its length and its fill byte.
\* memcpy_inner: dst.clone_from_slice(src) panics unless the lengths agree
memcpy_inner(p) ==
    IF p.dst.len = p.src[1].len
    THEN [dst |-> [len |-> p.dst.len, byte |-> p.src[1].byte], src |-> p.src,
          writes |-> p.src[1].len, panicked |-> FALSE]
    ELSE [dst |-> p.dst, src |-> p.src, writes |-> 0, panicked |-> TRUE]

\* the candidate a sub-benchmark's closure calls
Invoke(cand, p) ==
    CASE cand = "memcpy_inner" -> memcpy_inner(p)
      [] cand = "transform_normalize_false" -> transform_normalize_false(p)
      [] cand = "transform_normalize_true" -> transform_normalize_true(p)
      [] cand = "rotate_axis_normalize_false_outer" -> rotate_axis_normalize_false_outer(p)
      [] cand = "rotate_axis_normalize_true_outer" -> rotate_axis_normalize_true_outer(p)
      [] cand = "rotate_axis_normalize_reactive_outer" -> rotate_axis_normalize_reactive_outer(p)
      [] cand = "rotate_axis_normalize_fast_outer" -> rotate_axis_normalize_fast_outer(p)
      [] cand = "single_normalize_false_outer" -> single_normalize_false_outer(p)
      [] cand = "single_normalize_true_outer" -> single_normalize_true_outer(p)
      [] cand = "single_normalize_reactive_outer" -> single_normalize_reactive_outer(p)
      [] cand = "single_normalize_fast_outer" -> single_normalize_fast_outer(p)
      [] cand = "quat_loop_lerp" -> quat_loop_lerp(p)
      [] cand = "quat_loop_nlerp" -> quat_loop_nlerp(p)
      [] cand = "quat_loop_slerp" -> quat_loop_slerp(p)
      [] cand = "smoothstep_explicit" -> smoothstep_explicit(p)
      [] cand = "smoothstep_unit" -> smoothstep_unit(p)
      [] cand = "smoothstep_noinline" -> smoothstep_noinline(p)
      [] cand = "smoothstep_enum" -> smoothstep_enum(p)
      [] cand = "smoothstep_indirect_explicit" -> smoothstep_indirect_explicit(p)
      [] cand = "smoothstep_indirect_unit" -> smoothstep_indirect_unit(p)
      [] cand = "smoothstep_indirect_noinline" -> smoothstep_indirect_noinline(p)
      [] cand = "smoothstep_indirect_enum" -> smoothstep_indirect_enum(p)

\* ----------------------------------------------------------- rand workers
\* A worker is a thread running rand_inner(iterations): pc, its own generator
\* rng, the loop counter i, the values it drew (hist) and the value it handed
\* to black_box (observed, <<>> until then).
SpawnedWorker(iterations) ==
    [pc |-> "spawned", iterations |-> iterations, rng |-> 0, i |-> 0,
     hist |-> << >>, observed |-> << >>]

\* a plausible slip: the threads draw from one generator, the first thread's
rand_inner_shared(ws, w) ==
    LET wk == ws[w]
        v == next_u64(ws[1].rng)
    IN  CASE wk.pc = "spawned" ->
                [ws EXCEPT ![w] = [wk EXCEPT !.pc = "loop"],
                           ![1] = [@ EXCEPT !.rng = seed_from_u64(SEED)]]
          [] wk.pc = "loop" /\ wk.i < wk.iterations ->
                [ws EXCEPT ![w] = [wk EXCEPT !.i = @ + 1, !.hist = Append(@, v)],
                           ![1] = [@ EXCEPT !.rng = v]]
          [] wk.pc = "loop" /\ wk.i >= wk.iterations ->
                [ws EXCEPT ![w] = [wk EXCEPT !.pc = "terminated",
                                             !.hist = Append(@, v),
                                             !.observed = << v >>],
                           ![1] = [@ EXCEPT !.rng = v]]

\* a plausible slip: the value of the last draw of the loop is observed, and
\* no further draw is made
rand_inner_no_final_draw(ws, w) ==
    LET wk == ws[w]
        v == next_u64(wk.rng)
    IN  CASE wk.pc = "spawned" ->
                [ws EXCEPT ![w] = [wk EXCEPT !.pc = "loop", !.rng = seed_from_u64(SEED)]]
          [] wk.pc = "loop" /\ wk.i < wk.iterations ->
                [ws EXCEPT ![w] = [wk EXCEPT !.rng = v, !.i = @ + 1,
                                             !.hist = Append(@, v)]]
          [] wk.pc = "loop" /\ wk.i >= wk.iterations ->
                [ws EXCEPT ![w] = [wk EXCEPT !.pc = "terminated",
                                             !.observed = << wk.rng >>]]

\* benches.rs rand_inner, one step of worker w of ws:
\*   let mut rng = StdRng::seed_from_u64(1234);
\*   for _ in 0..iterations { rng.next_u64(); }
\*   criterion::black_box(rng.next_u64());
rand_inner(ws, w) ==
    LET wk == ws[w]
        v == next_u64(wk.rng)
    IN  CASE wk.pc = "spawned" ->
                [ws EXCEPT ![w] = [wk EXCEPT !.pc = "loop", !.rng = seed_from_u64(SEED)]]
          [] wk.pc = "loop" /\ wk.i < wk.iterations ->
                [ws EXCEPT ![w] = [wk EXCEPT !.rng = v, !.i = @ + 1,
                                             !.hist = Append(@, v)]]
          [] wk.pc = "loop" /\ wk.i >= wk.iterations ->
                [ws EXCEPT ![w] = [wk EXCEPT !.pc = "terminated", !.rng = v,
                                             !.hist = Append(@, v),
                                             !.observed = << v >>]]

\* ----------------------------------------------------------------- groups
\* cargo bench runs the bench binaries one after the other
Binaries == << "benches", "easing", "lerp", "normalize" >>

\* criterion_group!(name, ...): the group functions of a binary, in order
GroupsOf(b) ==
    CASE b = "benches" -> << "system", "memcpy", "rand", "benches_transform_normalize",
                             "benches_rotate_axis_normalize" >>
      [] b = "easing" -> << "smoothstep", "smoothstep_indirect" >>
      [] b = "lerp" -> << "quat" >>
      [] b = "normalize" -> << "transform_normalize", "rotate_axis_normalize",
                               "single_normalize" >>

\* benches.rs memcpy: the four (name, size) tiers
MemcpySizes == << L1_BYTES, L2_BYTES, L3_BYTES, RAM_BYTES >>

\* how many times a group function runs its setup (its loop over sizes,
\* counts or thread counts)
NumParams(g) ==
    CASE g = "memcpy" -> Len(MemcpySizes)
      [] g = "rand" -> max_thread_count
      [] g = "quat" -> 2
      [] OTHER -> 1

\* a plausible slip: the nlerp closure is handed the positive arrays
SubWrongStruct(label, cand, ps) ==
    [label |-> label, cand |-> cand,
     ps |-> IF label = "nlerp" THEN "params_positive" ELSE ps]

Sub(label, cand, ps) == [label |-> label, cand |-> cand, ps |-> ps]

\* the bench_function calls of a group, in order: the label, the candidate
\* the timed closure calls, and the parameter struct it passes
Subs(g) ==
    CASE g = "system" -> << >>
      [] g = "memcpy" -> << Sub("memcpy", "memcpy_inner", "params") >>
      [] g = "rand" -> << Sub("threads", "rand_inner", "none") >>
      [] g \in {"transform_normalize", "benches_transform_normalize"} ->
            << Sub("normalize = false", "transform_normalize_false", "params"),
               Sub("normalize = true", "transform_normalize_true", "params") >>
      [] g = "benches_rotate_axis_normalize" ->
            << Sub("normalize = false", "rotate_axis_normalize_false_outer", "params"),
               Sub("normalize = true", "rotate_axis_normalize_true_outer", "params"),
               Sub("normalize = reactive", "rotate_axis_normalize_reactive_outer", "params") >>
      [] g = "rotate_axis_normalize" ->
            << Sub("normalize = false", "rotate_axis_normalize_false_outer", "params"),
               Sub("normalize = true", "rotate_axis_normalize_true_outer", "params"),
               Sub("normalize = reactive", "rotate_axis_normalize_reactive_outer", "params"),
               Sub("normalize = fast", "rotate_axis_normalize_fast_outer", "params") >>
      [] g = "single_normalize" ->
            << Sub("normalize = false", "single_normalize_false_outer", "params"),
               Sub("normalize = true", "single_normalize_true_outer", "params"),
               Sub("normalize = reactive", "single_normalize_reactive_outer", "params"),
               Sub("normalize = fast", "single_normalize_fast_outer", "params") >>
      [] g = "quat" ->
            << Sub("lerp", "quat_loop_lerp", "params"),
               Sub("nlerp", "quat_loop_nlerp", "params"),
               Sub("slerp", "quat_loop_slerp", "params"),
               Sub("slerp (duplicates)", "quat_loop_slerp", "params_duplicates"),
               Sub("slerp (positive)", "quat_loop_slerp", "params_positive") >>
      [] g = "smoothstep" ->
            << Sub("explicit", "smoothstep_explicit", "params"),
               Sub("unit", "smoothstep_unit", "params"),
               Sub("noinline", "smoothstep_noinline", "params"),
               Sub("enum", "smoothstep_enum", "params") >>
      [] g = "smoothstep_indirect" ->
            << Sub("explicit", "smoothstep_indirect_explicit", "params"),
               Sub("unit", "smoothstep_indirect_unit", "params"),
               Sub("noinline", "smoothstep_indirect_noinline", "params"),
               Sub("enum", "smoothstep_indirect_enum", "params") >>

NoThroughput == [unit |-> "none", n |-> 0]

Elements(n) == [unit |-> "elements", n |-> n]

Bytes(n) == [unit |-> "bytes", n |-> n]

\* vec![v; n]
Vec(v, n) == [i \in 1..n |-> v]

\* vec![0u8; n]
ByteVec(b, n) == [len |-> n, byte |-> b]

\* what a setup leaves: the count, the declared throughput, the generator,
\* the parameter structs, the arrays the duplicate generator drew
SetupState(cnt, thr, r, ps, dr) ==
    [count |-> cnt, throughput |-> thr, rng |-> r, params |-> ps, drawn |-> dr]

\* a plausible slip: each buffer holds size bytes
memcpy_setup_whole(k) ==
    LET size == MemcpySizes[k]
    IN  SetupState(size, Bytes(size), rng,
                   [params |-> [dst |-> ByteVec(0, size),
                                src |-> << ByteVec(0, size) >>]],
                   << >>)

\* benches.rs system: the probe prints the environment and registers nothing
system_setup(k) == SetupState(0, NoThroughput, rng, << >>, << >>)

\* benches.rs memcpy, the body of `for (name, size) in sizes` up to bench_function
memcpy_setup(k) ==
    LET size == MemcpySizes[k]
    IN  SetupState(size, Bytes(size), rng,
                   [params |-> [dst |-> ByteVec(0, size \div 2),
                                src |-> << ByteVec(0, size \div 2) >>]],
                   << >>)

\* benches.rs rand: the throughput is set once, before the loop over thread counts
rand_setup(k) == SetupState(ITERATIONS, throughput, rng, << >>, << >>)

\* normalize.rs transform_normalize up to the first bench_function
transform_normalize_setup(k) ==
    LET cnt == l1_sized_count(sizeOf)
        r0 == seed_from_u64(SEED)
        a == random_transform_array(r0, cnt)
        b == random_transform_array(a.rng, cnt)
    IN  SetupState(cnt, Elements(cnt), b.rng,
                   [params |-> [dst |-> Vec(TransformIdentity, cnt),
                                src |-> << a.arr, b.arr >>]],
                   << >>)

\* benches.rs transform_normalize up to the first bench_function
benches_transform_normalize_setup(k) ==
    LET cnt == benches_l1_sized_count(sizeOf)
        r0 == seed_from_u64(SEED)
        a == benches_random_transform_array(r0, cnt)
        b == benches_random_transform_array(a.rng, cnt)
    IN  SetupState(cnt, Elements(cnt), b.rng,
                   [params |-> [dst |-> Vec(TransformIdentity, cnt),
                                src |-> << a.arr, b.arr >>]],
                   << >>)

\* normalize.rs rotate_axis_normalize: src_array, axis_array, angle_array
rotate_axis_normalize_setup(k) ==
    LET cnt == l1_sized_count(sizeOf)
        r0 == seed_from_u64(SEED)
        a == random_transform_array(r0, cnt)
        ax == random_array(a.rng, cnt)
        an == random_array(ax.rng, cnt)
    IN  SetupState(cnt, Elements(cnt), an.rng,
                   [params |-> [dst |-> Vec(TransformIdentity, cnt),
                                src |-> << a.arr, ax.arr, an.arr >>]],
                   << >>)

\* benches.rs rotate_axis_normalize
benches_rotate_axis_normalize_setup(k) ==
    LET cnt == benches_l1_sized_count(sizeOf)
        r0 == seed_from_u64(SEED)
        a == benches_random_transform_array(r0, cnt)
        ax == benches_random_array(a.rng, cnt)
        an == benches_random_array(ax.rng, cnt)
    IN  SetupState(cnt, Elements(cnt), an.rng,
                   [params |-> [dst |-> Vec(TransformIdentity, cnt),
                                src |-> << a.arr, ax.arr, an.arr >>]],
                   << >>)

\* a plausible slip: the source array is one element short of dst
single_normalize_setup_short(k) ==
    LET cnt == l1_sized_count(sizeOf)
        r0 == seed_from_u64(SEED)
        a == random_transform_array(r0, IF cnt > 0 THEN cnt - 1 ELSE 0)
    IN  SetupState(cnt, Elements(cnt), a.rng,
                   [params |-> [dst |-> Vec(TransformIdentity, cnt),
                                src |-> << a.arr >>]],
                   << >>)

\* normalize.rs single_normalize
single_normalize_setup(k) ==
    LET cnt == l1_sized_count(sizeOf)
        r0 == seed_from_u64(SEED)
        a == random_transform_array(r0, cnt)
    IN  SetupState(cnt, Elements(cnt), a.rng,
                   [params |-> [dst |-> Vec(TransformIdentity, cnt),
                                src |-> << a.arr >>]],
                   << >>)

\* lerp.rs quat, the body of `for count in [l1, l2]` up to the first
\* bench_function: params, src_quat_duplicates, params_duplicates, params_positive
quat_setup(k) ==
    LET cnt == IF k = 1 THEN l1_sized_count(sizeOf) ELSE l2_sized_count(sizeOf)
        r0 == seed_from_u64(SEED)
        a == random_quat_array(r0, cnt)
        b == random_quat_array(a.rng, cnt)
        d == random_duplicate_quat_arrays(b.rng, cnt)
        p1 == random_positive_quat_array(d.rng, cnt)
        p2 == random_positive_quat_array(p1.rng, cnt)
    IN  SetupState(cnt, Elements(cnt), p2.rng,
                   [params |-> [dst |-> Vec(QuatIdentity, cnt),
                                src |-> << a.arr, b.arr >>],
                    params_duplicates |-> [dst |-> Vec(QuatIdentity, cnt),
                                           src |-> << d.l, d.r >>],
                    params_positive |-> [dst |-> Vec(QuatIdentity, cnt),
                                         src |-> << p1.arr, p2.arr >>]],
                   << d.l0, d.r0 >>)

\* easing.rs smoothstep
smoothstep_setup(k) ==
    LET cnt == SMOOTHSTEP_COUNT
        r0 == seed_from_u64(SEED)
        a == random_array(r0, cnt)
    IN  SetupState(cnt, Elements(cnt), a.rng,
                   [params |-> [dst |-> Vec(0, cnt), src |-> << a.arr >>]],
                   << >>)

\* a plausible slip: the drawn indices are not reduced with rem_euclid(COUNT)
smoothstep_indirect_setup_raw(k) ==
    LET cnt == SMOOTHSTEP_INDIRECT_COUNT
        r0 == seed_from_u64(SEED)
        ix == random_array(r0, cnt)
        a == random_array(ix.rng, cnt)
    IN  SetupState(cnt, Elements(cnt), a.rng,
                   [params |-> [dst |-> Vec(0, cnt), src |-> << a.arr, ix.arr >>]],
                   << >>)

\* easing.rs smoothstep_indirect: index_array is drawn first and reduced with
\* rem_euclid(COUNT), then src_array; the struct's inputs are << src, index >>
smoothstep_indirect_setup(k) ==
    LET cnt == SMOOTHSTEP_INDIRECT_COUNT
        r0 == seed_from_u64(SEED)
        ix == random_array(r0, cnt)
        a == random_array(ix.rng, cnt)
    IN  SetupState(cnt, Elements(cnt), a.rng,
                   [params |-> [dst |-> Vec(0, cnt),
                                src |-> << a.arr,
                                           [i \in 1..cnt |-> ix.arr[i] % cnt] >>]],
                   << >>)

GroupSetup(g, k) ==
    CASE g = "system" -> system_setup(k)
      [] g = "memcpy" -> memcpy_setup(k)
      [] g = "rand" -> rand_setup(k)
      [] g = "transform_normalize" -> transform_normalize_setup(k)
      [] g = "benches_transform_normalize" -> benches_transform_normalize_setup(k)
      [] g = "rotate_axis_normalize" -> rotate_axis_normalize_setup(k)
      [] g = "benches_rotate_axis_normalize" -> benches_rotate_axis_normalize_setup(k)
      [] g = "single_normalize" -> single_normalize_setup(k)
      [] g = "quat" -> quat_setup(k)
      [] g = "smoothstep" -> smoothstep_setup(k)
      [] g = "smoothstep_indirect" -> smoothstep_indirect_setup(k)

\* ---------------------------------------------------------------- harness
\* the record footprints explored: L1 holds MaxCount..1 records of them, or
\* none (one byte too many for L1, one byte too many for L2)
Footprints ==
    {L1_BYTES \div c : c \in 1..MaxCount} \cup {L1_BYTES + 1, L2_BYTES + 1}

\* what black_box is handed: the unit value a closure returns, or a value
Unit == [tag |-> "unit", val |-> 0]

Value(v) == [tag |-> "value", val |-> v]

RECURSIVE TotalDraws(_)
\* the next_u64 calls the workers ws made
TotalDraws(ws) == IF ws = << >> THEN 0 ELSE Len(Head(ws).hist) + TotalDraws(Tail(ws))

RECURSIVE Observations(_)
\* the values the workers ws handed to black_box, in thread order
Observations(ws) ==
    IF ws = << >> THEN << >>
    ELSE (IF Head(ws).observed = << >> THEN << >>
          ELSE << Value(Head(ws).observed[1]) >>) \o Observations(Tail(ws))

\* a plausible slip: the result of join is dropped (let _ = t.join())
join_result_dropped(wk) == FALSE

\* t.join().unwrap(): join gives Err when the thread panicked, and unwrap
\* then panics in the main thread
join_unwrap_panics(wk) == wk.pc = "panicked"

\* the code of a group function before its loop: rand declares its throughput
GroupStart(g) == IF g = "rand" THEN Elements(ITERATIONS) ELSE NoThroughput

\* repeat_with(|| thread::spawn(..)).take(thread_count)
ThreadsToSpawn(thread_count) == thread_count

InSub == group # "none" /\ param >= 1 /\ sub \in 1..Len(Subs(group))

CurSub == Subs(group)[sub]

\* rand: no timed iteration is in progress
RandIdle == workers = << >> \/ joined = param

HarnessInit ==
    /\ salt \in 0..(NumStreams - 1)
    /\ sizeOf \in Footprints
    /\ max_thread_count = 0
    /\ binary = "none"
    /\ ran = << >>
    /\ todo = << >>
    /\ group = "none"
    /\ param = 0
    /\ sub = 0
    /\ iters = 0
    /\ count = 0
    /\ rng = 0
    /\ params = << >>
    /\ drawn = << >>
    /\ throughput = NoThroughput
    /\ sink = << >>
    /\ work = 0
    /\ registered = {}
    /\ invoked = {}
    /\ workers = << >>
    /\ joined = 0
    /\ built = << >>
    /\ crashed = FALSE

\* ------------------------------------------------------ the system probe
\* An Option is << >> (None) or << v >> (Some(v)).  A printed field is a text
\* or a number with one decimal (n tenths).
NOT_AVAILABLE == "not available"

Text(t) == [kind |-> "text", s |-> t, n |-> 0]

\* format!("{:.1} GB", x), x given in tenths
OneDecimalGB(tenths) == [kind |-> "GB", s |-> "", n |-> tenths]

\* Option::unwrap_or
unwrap_or(opt, default) == IF opt = << >> THEN default ELSE opt[1]

\* sys.cpus().first()
first(cpus) == IF cpus = << >> THEN << >> ELSE << cpus[1] >>

\* a brand is its text and whether sysinfo reports it padded with blanks;
\* cpu.brand().trim().to_string()
trim(brand) == [brand EXCEPT !.padded = FALSE]

\* physical_core_count().map(|cores| cores.to_string())
cores_to_string(opt) == IF opt = << >> THEN << >> ELSE << [digits |-> opt[1]] >>

\* sys.total_memory(): a u64, 0 when sysinfo could not read it
total_memory(h) == IF h.mem = << >> THEN 0 ELSE h.mem[1]

\* bytes as f64 * (1.0 / (1024.0 * 1024.0 * 1024.0)), rounded to one decimal
GigabyteTenths(bytes) == (bytes * 10 + 512 * 1024 * 1024) \div (1024 * 1024 * 1024)

\* the first println!: "os: {} / {} / {}"
system_os_line(h) ==
    [tag |-> "os",
     fields |-> << Text(unwrap_or(h.os, NOT_AVAILABLE)),
                   Text(unwrap_or(h.kernel, NOT_AVAILABLE)),
                   Text(unwrap_or(h.arch, NOT_AVAILABLE)) >>]

\* the second println!: "cpu: {}"
system_cpu_line(h) ==
    [tag |-> "cpu",
     fields |-> << IF first(h.cpus) = << >> THEN Text(NOT_AVAILABLE)
                   ELSE [kind |-> "brand", s |-> trim(first(h.cpus)[1]).text, n |-> 0] >>]

\* the third println!: "cores: {}"
system_cores_line(h) ==
    [tag |-> "cores",
     fields |-> << IF cores_to_string(h.cores) = << >> THEN Text(NOT_AVAILABLE)
                   ELSE [kind |-> "digits", s |-> "", n |-> cores_to_string(h.cores)[1].digits] >>]

\* the fourth println!: "mem: {:.1} GB"
system_mem_line(h) ==
    [tag |-> "mem", fields |-> << OneDecimalGB(GigabyteTenths(total_memory(h))) >>]

\* a host on which every fact can be determined
KnownHost ==
    [os |-> << "os" >>, kernel |-> << "kernel" >>, arch |-> << "arch" >>,
     cpus |-> << [text |-> "brand", padded |-> TRUE] >>, cores |-> << 4 >>,
     mem |-> << 128 * 1024 * 1024 >>]

\* the hosts explored: each fact can be determined or not
Hosts ==
    [os : {<< >>, << "os" >>}, kernel : {<< >>, << "kernel" >>},
     arch : {<< >>, << "arch" >>},
     cpus : {<< >>, << [text |-> "brand", padded |-> FALSE] >>,
             << [text |-> "brand", padded |-> TRUE] >>},
     cores : {<< >>, << 4 >>},
     mem : {<< >>, << 128 * 1024 * 1024 >>}]

ProbeIdle == host = KnownHost /\ printed = << >> /\ probePc = "idle"

SizingIdle == szT = 1 /\ szL1 = 0 /\ szL2 = 0 /\ szPc = "idle"

Init == HarnessInit /\ SizingIdle /\ ProbeIdle

\* cargo bench starts a bench binary: criterion_main! runs its groups in order
StartBinary ==
    /\ ~crashed
    /\ binary = "none"
    /\ Len(ran) < Len(Binaries)
    /\ binary' = Binaries[Len(ran) + 1]
    /\ todo' = GroupsOf(Binaries[Len(ran) + 1])
    /\ UNCHANGED << salt, sizeOf, max_thread_count, ran, group, param, sub, iters,
                    count, rng, params, drawn, throughput, sink, work, registered,
                    invoked, workers, joined, built, crashed, sizingVars, probeVars >>

\* the next group function is entered
StartGroup ==
    /\ ~crashed
    /\ binary # "none"
    /\ group = "none"
    /\ todo # << >>
    /\ group' = Head(todo)
    /\ todo' = Tail(todo)
    /\ param' = 0
    /\ sub' = 0
    /\ throughput' = GroupStart(Head(todo))
    /\ IF Head(todo) = "rand"
       THEN max_thread_count' \in 1..MaxThreads
       ELSE max_thread_count' = 0
    /\ UNCHANGED << salt, sizeOf, binary, ran, iters, count, rng,
                    params, drawn, sink, work, registered, invoked, workers, joined,
                    built, crashed, sizingVars, probeVars >>

\* the group function builds the batches of its next parameterization
Setup ==
    /\ ~crashed
    /\ group # "none"
    /\ param < NumParams(group)
    /\ param = 0 \/ sub > Len(Subs(group))
    /\ LET st == GroupSetup(group, param + 1)
       IN  /\ count' = st.count
           /\ throughput' = st.throughput
           /\ rng' = st.rng
           /\ params' = st.params
           /\ drawn' = st.drawn
           /\ built' = IF group \in {"transform_normalize", "benches_transform_normalize"}
                       THEN (binary :> st.params.params.src) @@ built
                       ELSE built
    /\ param' = param + 1
    /\ sub' = 1
    /\ iters' = 0
    /\ sink' = << >>
    /\ work' = 0
    /\ registered' = {}
    /\ invoked' = {}
    /\ workers' = << >>
    /\ joined' = 0
    /\ UNCHANGED << salt, sizeOf, max_thread_count, binary, ran, todo, group, crashed,
                    sizingVars, probeVars >>

\* bench_function is called and criterion's filter rejects the label: the
\* closure is never run
Filtered ==
    /\ ~crashed
    /\ InSub
    /\ iters = 0
    /\ workers = << >>
    /\ registered' = registered \cup {CurSub.label}
    /\ sub' = sub + 1
    /\ UNCHANGED << salt, sizeOf, max_thread_count, binary, ran, todo, group, param,
                    iters, count, rng, params, drawn, throughput, sink, work, invoked,
                    workers, joined, built, crashed, sizingVars, probeVars >>

\* one timed iteration of b.iter(|| { candidate(&mut params); }): the closure
\* returns (), which is what b.iter hands to black_box
Iterate ==
    /\ ~crashed
    /\ InSub
    /\ group # "rand"
    /\ iters < MaxIters
    /\ LET p == params[CurSub.ps]
           res == Invoke(CurSub.cand, p)
       IN  /\ params' = [params EXCEPT ![CurSub.ps] = [dst |-> res.dst, src |-> res.src]]
           /\ work' = res.writes
           /\ crashed' = res.panicked
           /\ iters' = IF res.panicked THEN iters ELSE iters + 1
           /\ sink' = IF res.panicked THEN << >> ELSE << Unit >>
           /\ invoked' = invoked \cup {[label |-> CurSub.label, ps |-> CurSub.ps,
                                        src |-> p.src,
                                        dstlen |-> IF group = "memcpy" THEN p.dst.len
                                                   ELSE Len(p.dst)]}
    /\ registered' = registered \cup {CurSub.label}
    /\ UNCHANGED << salt, sizeOf, max_thread_count, binary, ran, todo, group, param,
                    sub, count, rng, drawn, throughput, workers, joined, built,
                    sizingVars, probeVars >>

\* rand: the timed closure spawns its next thread
RandSpawn ==
    /\ ~crashed
    /\ InSub
    /\ group = "rand"
    /\ \/ /\ RandIdle
          /\ iters < MaxIters
          /\ workers' = << SpawnedWorker(ITERATIONS) >>
       \/ /\ ~RandIdle
          /\ joined = 0
          /\ Len(workers) < ThreadsToSpawn(param)
          /\ workers' = Append(workers, SpawnedWorker(ITERATIONS))
    /\ joined' = 0
    /\ registered' = registered \cup {CurSub.label}
    /\ UNCHANGED << salt, sizeOf, max_thread_count, binary, ran, todo, group, param,
                    sub, iters, count, rng, params, drawn, throughput, sink, work,
                    invoked, built, crashed, sizingVars, probeVars >>

\* rand: thread w runs one step of rand_inner
WorkerStep(w) ==
    /\ ~crashed
    /\ group = "rand"
    /\ w \in DOMAIN workers
    /\ workers[w].pc \notin {"terminated", "panicked"}
    /\ workers' = rand_inner(workers, w)
    /\ UNCHANGED << salt, sizeOf, max_thread_count, binary, ran, todo, group, param,
                    sub, iters, count, rng, params, drawn, throughput, sink, work,
                    registered, invoked, joined, built, crashed, sizingVars, probeVars >>

\* rand: threads.into_iter().for_each(|t| t.join().unwrap()) joins the next
\* thread, which has ended; after the last join the closure returns ().  The
\* unwrap of a panicked thread's result panics in the main thread, which
\* nothing catches: the process ends.
RandJoin ==
    /\ ~crashed
    /\ InSub
    /\ group = "rand"
    /\ ~RandIdle
    /\ Len(workers) = ThreadsToSpawn(param)
    /\ joined < Len(workers)
    /\ workers[joined + 1].pc \in {"terminated", "panicked"}
    /\ IF join_unwrap_panics(workers[joined + 1])
       THEN /\ crashed' = TRUE
            /\ UNCHANGED << joined, iters, sink, work, invoked >>
       ELSE /\ crashed' = crashed
            /\ joined' = joined + 1
            /\ IF joined + 1 = Len(workers)
               THEN /\ iters' = iters + 1
                    /\ sink' = Observations(workers) \o << Unit >>
                    /\ work' = TotalDraws(workers)
                    /\ invoked' = invoked \cup {[label |-> CurSub.label, ps |-> CurSub.ps,
                                                 src |-> << >>, dstlen |-> 0]}
               ELSE UNCHANGED << iters, sink, work, invoked >>
    /\ UNCHANGED << salt, sizeOf, max_thread_count, binary, ran, todo, group, param,
                    sub, count, rng, params, drawn, throughput, registered, workers,
                    built, sizingVars, probeVars >>

\* criterion has measured the sub-benchmark: the group function goes on
NextBench ==
    /\ ~crashed
    /\ InSub
    /\ iters >= 1
    /\ group = "rand" => RandIdle
    /\ sub' = sub + 1
    /\ iters' = 0
    /\ workers' = << >>
    /\ joined' = 0
    /\ UNCHANGED << salt, sizeOf, max_thread_count, binary, ran, todo, group, param,
                    count, rng, params, drawn, throughput, sink, work, registered,
                    invoked, built, crashed, sizingVars, probeVars >>

\* the group function returns: its batches are dropped
EndGroup ==
    /\ ~crashed
    /\ group # "none"
    /\ param = NumParams(group)
    /\ sub > Len(Subs(group))
    /\ group' = "none"
    /\ param' = 0
    /\ sub' = 0
    /\ count' = 0
    /\ rng' = 0
    /\ params' = << >>
    /\ drawn' = << >>
    /\ throughput' = NoThroughput
    /\ sink' = << >>
    /\ work' = 0
    /\ registered' = {}
    /\ invoked' = {}
    /\ UNCHANGED << salt, sizeOf, max_thread_count, binary, ran, todo, iters, workers,
                    joined, built, crashed, sizingVars, probeVars >>

\* the bench binary exits
EndBinary ==
    /\ ~crashed
    /\ binary # "none"
    /\ group = "none"
    /\ todo = << >>
    /\ ran' = Append(ran, binary)
    /\ binary' = "none"
    /\ UNCHANGED << salt, sizeOf, max_thread_count, todo, group, param, sub, iters,
                    count, rng, params, drawn, throughput, sink, work, registered,
                    invoked, workers, joined, built, crashed, sizingVars, probeVars >>

Next ==
    \/ StartBinary
    \/ StartGroup
    \/ Setup
    \/ Filtered
    \/ Iterate
    \/ RandSpawn
    \/ \E w \in 1..MaxThreads : WorkerStep(w)
    \/ RandJoin
    \/ NextBench
    \/ EndGroup
    \/ EndBinary

Spec == Init /\ [][Next]_vars

\* ------------------------------------------------- the run with worker faults
\* the closure of thread w panics before it has terminated
WorkerPanic(w) ==
    /\ ~crashed
    /\ group = "rand"
    /\ w \in DOMAIN workers
    /\ workers[w].pc \notin {"terminated", "panicked"}
    /\ workers' = [workers EXCEPT ![w] = [@ EXCEPT !.pc = "panicked"]]
    /\ UNCHANGED << salt, sizeOf, max_thread_count, binary, ran, todo, group, param,
                    sub, iters, count, rng, params, drawn, throughput, sink, work,
                    registered, invoked, joined, built, crashed, sizingVars, probeVars >>

NextFault ==
    \/ Next
    \/ \E w \in 1..MaxThreads : WorkerPanic(w)

SpecFault == Init /\ [][NextFault]_vars

\* ------------------------------------------------- the sizing functions alone
\* the footprints the sizing functions are applied to: the small ones and the
\* ones around the two capacities
SizingFootprints ==
    (1..MaxFootprint)
        \cup {L1_BYTES - 1, L1_BYTES, L1_BYTES + 1, L2_BYTES - 1, L2_BYTES, L2_BYTES + 1}

HarnessIdle ==
    /\ HarnessInit
    /\ salt = 0
    /\ sizeOf = L1_BYTES

InitSizing ==
    /\ HarnessIdle
    /\ ProbeIdle
    /\ szT \in SizingFootprints
    /\ szL1 = 0
    /\ szL2 = 0
    /\ szPc = "start"

\* l1_sized_count::<T>() is evaluated
SizeL1 ==
    /\ szPc = "start"
    /\ szL1' = l1_sized_count(szT)
    /\ szPc' = "l1"
    /\ UNCHANGED << szT, szL2, harnessVars, probeVars >>

\* l2_sized_count::<T>() is evaluated
SizeL2 ==
    /\ szPc = "l1"
    /\ szL2' = l2_sized_count(szT)
    /\ szPc' = "done"
    /\ UNCHANGED << szT, szL1, harnessVars, probeVars >>

NextSizing == SizeL1 \/ SizeL2

SpecSizing == InitSizing /\ [][NextSizing]_vars

\* ------------------------------------------------------- the probe alone
InitProbe ==
    /\ HarnessIdle
    /\ SizingIdle
    /\ host \in Hosts
    /\ printed = << >>
    /\ probePc = "os"

\* println!("os: {} / {} / {}", ...)
PrintOs ==
    /\ probePc = "os"
    /\ printed' = Append(printed, system_os_line(host))
    /\ probePc' = "cpu"
    /\ UNCHANGED << host, harnessVars, sizingVars >>

\* println!("cpu: {}", ...)
PrintCpu ==
    /\ probePc = "cpu"
    /\ printed' = Append(printed, system_cpu_line(host))
    /\ probePc' = "cores"
    /\ UNCHANGED << host, harnessVars, sizingVars >>

\* println!("cores: {}", ...)
PrintCores ==
    /\ probePc = "cores"
    /\ printed' = Append(printed, system_cores_line(host))
    /\ probePc' = "mem"
    /\ UNCHANGED << host, harnessVars, sizingVars >>

\* println!("mem: {:.1} GB", ...) and the return of system
PrintMem ==
    /\ probePc = "mem"
    /\ printed' = Append(printed, system_mem_line(host))
    /\ probePc' = "returned"
    /\ UNCHANGED << host, harnessVars, sizingVars >>

NextProbe == PrintOs \/ PrintCpu \/ PrintCores \/ PrintMem

SpecProbe == InitProbe /\ [][NextProbe]_vars

\* ------------------------------------------------------------------ claims
\* the groups whose element count comes from a sizing function
SizedGroups ==
    {"transform_normalize", "benches_transform_normalize", "rotate_axis_normalize",
     "benches_rotate_axis_normalize", "single_normalize", "quat"}

\* the quat sub-benchmarks that are built on arrays of their own
QuatVariants == {"slerp (duplicates)", "slerp (positive)"}

\* C1 as stated: all the sub-benchmarks of a group that were invoked for one
\* size parameter read the same input batches and write an output batch of
\* the same length (in quat: slerp (duplicates) and slerp (positive) too).
C1_AllCandidatesSameInputs ==
    \A a \in invoked : \A b \in invoked : a.src = b.src /\ a.dstlen = b.dstlen

\* C1 amended: the output batches of all the invoked sub-benchmarks have the
\* same length, the declared count; every sub-benchmark but quat's slerp
\* (duplicates) and slerp (positive) reads the same input batches, and each of
\* these two reads the same arrays every time it is invoked.
C1_SharedInputsButQuatVariants ==
    \A a \in invoked : \A b \in invoked :
        /\ a.dstlen = b.dstlen
        /\ group \notin {"memcpy", "rand"} => a.dstlen = count
        /\ (a.label \notin QuatVariants /\ b.label \notin QuatVariants) => a.src = b.src
        /\ a.label = b.label => a.src = b.src

\* quat: lerp, nlerp and slerp (duplicates) were invoked on a non-empty count;
\* lerp and nlerp read the same arrays, slerp (duplicates) other ones
C1_Witness ==
    /\ group = "quat"
    /\ count > 0
    /\ \E a \in invoked : \E b \in invoked : \E c \in invoked :
          /\ a.label = "lerp"
          /\ b.label = "nlerp"
          /\ c.label = "slerp (duplicates)"
          /\ a.src = b.src
          /\ a.src # c.src

\* the input arrays of the group's parameter structs
Inputs == [ps \in DOMAIN params |-> params[ps].src]

\* C2: within one parameterization of a group no step (a timed invocation of
\* any candidate, repeated or not, a skipped or a finished sub-benchmark)
\* changes an element of an input array.
C2_InputsNeverMutated ==
    [][(group # "none" /\ param >= 1 /\ group' = group /\ param' = param)
          => Inputs' = Inputs]_vars

\* two quat candidates have each been invoked, the current one MaxIters times,
\* on non-empty arrays
C2_Witness ==
    /\ group = "quat"
    /\ count > 0
    /\ iters = MaxIters
    /\ \E a \in invoked : a.label # CurSub.label

\* C3: the two input batches that transform_normalize of benches.rs builds
\* equal the two that transform_normalize of normalize.rs builds (the same
\* seed, the same two batch-generation calls with the same count).
C3_SameSeedSameBatches ==
    ("benches" \in DOMAIN built /\ "normalize" \in DOMAIN built)
        => built["benches"] = built["normalize"]

\* both groups have built their batches, which are not empty
C3_Witness ==
    /\ "benches" \in DOMAIN built
    /\ "normalize" \in DOMAIN built
    /\ Len(built["normalize"][1]) > 0
    /\ built["normalize"][1] # built["normalize"][2]

\* q is floor(capacity / footprint)
IsFloor(q, capacity, footprint) ==
    q * footprint <= capacity /\ capacity < (q + 1) * footprint

\* C4: for a footprint of at least one byte l1_sized_count is
\* floor(16384 / footprint) and l2_sized_count is floor(524288 / footprint);
\* the result is 0 exactly when the footprint exceeds the capacity, and
\* result * footprint never exceeds the capacity.
C4_SizedCountIsFloor ==
    /\ szPc \in {"l1", "done"} =>
          /\ IsFloor(szL1, 16384, szT)
          /\ szL1 = 0 <=> szT > 16384
    /\ szPc = "done" =>
          /\ IsFloor(szL2, 524288, szT)
          /\ szL2 = 0 <=> szT > 524288

\* a footprint that does not fit L1 and fits L2 has been sized
C4_Witness == szPc = "done" /\ szT > 16384 /\ szL1 = 0 /\ szL2 = 1

\* the stream a generator seeded with SEED gives
OwnStream(n) == Draws(seed_from_u64(SEED), n)

\* C5, the states: a timed iteration of threads = k never has more than k
\* workers; what each worker has drawn is the stream of its own generator;
\* and when the iteration is complete exactly k workers were spawned and all
\* of them have terminated.
C5_States ==
    group = "rand" =>
        /\ Len(workers) <= param
        /\ \A w \in DOMAIN workers :
              workers[w].pc # "spawned" =>
                  /\ workers[w].hist = OwnStream(Len(workers[w].hist))
                  /\ workers[w].rng = RngPast(seed_from_u64(SEED), workers[w].hist)
        /\ (workers # << >> /\ joined = param) =>
              /\ Len(workers) = param
              /\ \A w \in DOMAIN workers : workers[w].pc = "terminated"

\* C5, the steps: the timed iteration is counted only when k workers exist and
\* all have terminated, and no step changes more than one worker.
C5_Steps ==
    /\ (group = "rand" /\ iters' = iters + 1) =>
          /\ Len(workers) = param
          /\ \A w \in DOMAIN workers : workers[w].pc = "terminated"
    /\ \A w \in DOMAIN workers \cap DOMAIN workers' :
          \A v \in DOMAIN workers \cap DOMAIN workers' :
              (w # v /\ workers'[w] # workers[w]) => workers'[v] = workers[v]

\* C5: in the rand sub-benchmark with thread count k every timed iteration
\* spawns exactly k workers, each owns its generator, and the iteration
\* completes only after all k have terminated, under every interleaving.
C5_WorkersOwnGeneratorsAndAreJoined == [] C5_States /\ [][C5_Steps]_vars

\* a timed iteration of two threads is complete
C5_Witness ==
    /\ group = "rand"
    /\ param = 2
    /\ Len(workers) = 2
    /\ joined = 2
    /\ iters >= 1

\* C6 as stated: a terminated rand_inner(N) has advanced its generator exactly
\* N times and has handed the value of the N-th draw to black_box.
C6_AdvancesExactlyN ==
    \A w \in DOMAIN workers :
        workers[w].pc = "terminated" =>
            /\ Len(workers[w].hist) = workers[w].iterations
            /\ workers[w].observed = << workers[w].hist[workers[w].iterations] >>

\* C6 amended: a terminated rand_inner(N) has advanced its generator exactly
\* N + 1 times, N times in the loop and once more for the value it hands to
\* black_box, which is the value of the (N + 1)-th draw.
C6_AdvancesNPlusOne ==
    \A w \in DOMAIN workers :
        workers[w].pc = "terminated" =>
            /\ Len(workers[w].hist) = workers[w].iterations + 1
            /\ workers[w].hist = OwnStream(workers[w].iterations + 1)
            /\ workers[w].observed = << workers[w].hist[workers[w].iterations + 1] >>
            /\ workers[w].i = workers[w].iterations

\* a worker has run rand_inner(ITERATIONS) to its end
C6_Witness ==
    /\ group = "rand"
    /\ \E w \in DOMAIN workers :
          /\ workers[w].pc = "terminated"
          /\ workers[w].iterations = ITERATIONS
          /\ workers[w].iterations >= 1

\* the pair of arrays the duplicate-pair generator returned
DuplicatePair == params["params_duplicates"].src

\* C7 as stated: the first array of the pair is as it was drawn, and every
\* element of the second is the first's or its own drawn value.
C7_SecondArrayOverwritten ==
    (group = "quat" /\ param >= 1) =>
        /\ DuplicatePair[1] = drawn[1]
        /\ \A i \in 1..count :
              DuplicatePair[2][i] = DuplicatePair[1][i] \/ DuplicatePair[2][i] = drawn[2][i]

\* C7 amended: the generator draws two arrays of length count and, on a coin
\* flip per index, overwrites the FIRST array's element with the second's:
\* the second array is as it was drawn, and every element of the first is the
\* second's or its own drawn value.
C7_FirstArrayOverwritten ==
    (group = "quat" /\ param >= 1) =>
        /\ Len(DuplicatePair[1]) = count
        /\ Len(DuplicatePair[2]) = count
        /\ DuplicatePair[2] = drawn[2]
        /\ \A i \in 1..count :
              DuplicatePair[1][i] = DuplicatePair[2][i] \/ DuplicatePair[1][i] = drawn[1][i]

\* a pair in which one element of the first array was overwritten with the
\* second's and another was left as drawn
C7_Witness ==
    /\ group = "quat"
    /\ param >= 1
    /\ \E i \in 1..count :
          DuplicatePair[1][i] = DuplicatePair[2][i] /\ drawn[1][i] # drawn[2][i]
    /\ \E i \in 1..count :
          DuplicatePair[1][i] = drawn[1][i] /\ drawn[1][i] # drawn[2][i]

\* C8 as stated: after a timed iteration the declared throughput is the work
\* the iteration did: the elements written, the bytes copied (memcpy), the
\* draws all the workers made (rand).
C8_ThroughputIsWork == (InSub /\ iters >= 1) => throughput.n = work

\* C8 amended: in the element groups the declared throughput is the number of
\* output elements one timed invocation writes; in memcpy it is the tier size
\* in bytes, twice the bytes copied (source and destination hold half the tier
\* each); in rand it is ITERATIONS at every thread count k, while the k workers
\* make k * (ITERATIONS + 1) draws.
C8_ThroughputAndWork ==
    (InSub /\ iters >= 1) =>
        CASE group = "memcpy" ->
                /\ throughput = Bytes(MemcpySizes[param])
                /\ 2 * work = throughput.n
                /\ work = params["params"].dst.len
          [] group = "rand" ->
                /\ throughput = Elements(ITERATIONS)
                /\ work = param * (ITERATIONS + 1)
          [] OTHER ->
                /\ throughput = Elements(count)
                /\ work = count
                /\ work = Len(params[CurSub.ps].dst)

\* memcpy has copied the RAM tier's buffer
C8_Witness == group = "memcpy" /\ param = 4 /\ InSub /\ iters >= 1 /\ work > 0

\* C9 as stated: after every timed iteration of every candidate a value was
\* handed to black_box, and outside rand it is an element of the output batch.
C9_OutputObserved ==
    (InSub /\ iters >= 1 /\ count > 0) =>
        \E k \in DOMAIN sink :
            /\ sink[k].tag = "value"
            /\ group # "rand" =>
                  \E i \in DOMAIN params[CurSub.ps].dst :
                      params[CurSub.ps].dst[i] = sink[k].val

ProbeField(f) ==
    CASE f = "os" -> printed[1].fields[1]
      [] f = "kernel" -> printed[1].fields[2]
      [] f = "arch" -> printed[1].fields[3]
      [] f = "cpus" -> printed[2].fields[1]
      [] f = "cores" -> printed[3].fields[1]
      [] f = "mem" -> printed[4].fields[1]

\* C11: when the probe has returned it has printed its four lines, and each of
\* the six facts that could not be determined on the host is printed as the
\* text "not available".
C11_UndeterminedPrintsNotAvailable ==
    probePc = "returned" =>
        /\ Len(printed) = 4
        /\ \A f \in {"os", "kernel", "arch", "cpus", "cores", "mem"} :
              host[f] = << >> => ProbeField(f) = Text(NOT_AVAILABLE)

\* C12 as stated: a panic of a rand worker aborts its sub-benchmark only: the
\* process lives on, to run the remaining thread counts and groups.
C12_PanicAbortsSubBenchmarkOnly ==
    (group = "rand" /\ \E w \in DOMAIN workers : workers[w].pc = "panicked")
        => ~crashed

\* C12 amended, the states: no panicked worker is ever counted as joined; the
\* join of a panicked worker ends the process inside rand, with the groups
\* registered after rand still to run.
C12_States ==
    group = "rand" =>
        /\ \A w \in 1..joined : workers[w].pc = "terminated"
        /\ crashed =>
              /\ binary = "benches"
              /\ todo = << "benches_transform_normalize", "benches_rotate_axis_normalize" >>
              /\ joined < Len(workers)
              /\ workers[joined + 1].pc = "panicked"

\* C12 amended, the steps: once the process has ended in rand nothing more
\* happens: no retry, no further thread count, no further group.
C12_Steps ==
    (crashed /\ group = "rand") =>
        /\ crashed'
        /\ group' = group /\ param' = param /\ sub' = sub /\ iters' = iters
        /\ todo' = todo /\ ran' = ran /\ binary' = binary
        /\ workers' = workers /\ joined' = joined /\ invoked' = invoked

\* C12 amended: if a worker of the rand sub-benchmark with thread count k
\* panics during a timed iteration, the unwrap of its join panics in the main
\* thread and the whole bench process is aborted: nothing is retried, the
\* iteration is not counted, and neither the sub-benchmarks for thread counts
\* k+1..max nor the groups registered after rand are run.
C12_WorkerPanicAbortsRun == [] C12_States /\ [][C12_Steps]_vars

\* the process has ended at thread count 1 of 2, on a worker that panicked
\* inside its loop
C12_Witness ==
    /\ crashed
    /\ group = "rand"
    /\ param = 1
    /\ max_thread_count = 2
    /\ \E w \in DOMAIN workers : workers[w].pc = "panicked" /\ workers[w].i >= 1


\* the index array of the indirect smoothstep group
IndexArray == params["params"].src[2]

\* C13 as stated: the index array is a permutation of 0..COUNT: its length is
\* COUNT, every entry lies in [0, COUNT) and every value of [0, COUNT) occurs
\* exactly once.
C13_IndexArrayIsPermutation ==
    (group = "smoothstep_indirect" /\ param >= 1) =>
        /\ Len(IndexArray) = SMOOTHSTEP_INDIRECT_COUNT
        /\ \A i \in DOMAIN IndexArray : IndexArray[i] \in 0..(SMOOTHSTEP_INDIRECT_COUNT - 1)
        /\ \A v \in 0..(SMOOTHSTEP_INDIRECT_COUNT - 1) :
              Cardinality({i \in DOMAIN IndexArray : IndexArray[i] = v}) = 1

\* C13 amended: the index array has length COUNT and every entry lies in
\* [0, COUNT); the entries are independent draws reduced modulo COUNT.
C13_IndexArrayInRange ==
    (group = "smoothstep_indirect" /\ param >= 1) =>
        /\ Len(IndexArray) = SMOOTHSTEP_INDIRECT_COUNT
        /\ Len(IndexArray) = count
        /\ \A i \in DOMAIN IndexArray : IndexArray[i] \in 0..(SMOOTHSTEP_INDIRECT_COUNT - 1)

\* an index array in which a value occurs twice and another value is missing
C13_Witness ==
    /\ group = "smoothstep_indirect"
    /\ param >= 1
    /\ \E i \in DOMAIN IndexArray : \E j \in DOMAIN IndexArray :
          i # j /\ IndexArray[i] = IndexArray[j]
    /\ \E v \in 0..(SMOOTHSTEP_INDIRECT_COUNT - 1) :
          \A i \in DOMAIN IndexArray : IndexArray[i] # v


\* the output batch of the current sub-benchmark as its group built it
FreshOutput == GroupSetup(group, param).params[CurSub.ps].dst

\* what the current candidate leaves in a freshly built output batch when it
\* is invoked alone, once, on the current input batches
AloneOnce ==
    Invoke(CurSub.cand, [dst |-> FreshOutput, src |-> params[CurSub.ps].src]).dst

\* C14, the steps: whatever candidates ran before and however often, a timed
\* invocation leaves in the output batch what the candidate invoked alone,
\* once, would leave there.
C14_Steps ==
    (InSub /\ group # "rand" /\ group' = group /\ iters' = iters + 1)
        => params'[CurSub.ps].dst = AloneOnce

\* C14, single_normalize: the translation and scale of every output element
\* stay at their identity values.
C14_States ==
    (group = "single_normalize" /\ param >= 1) =>
        \A i \in DOMAIN params["params"].dst :
            /\ params["params"].dst[i].translation = TransformIdentity.translation
            /\ params["params"].dst[i].scale = TransformIdentity.scale

\* C14: the output batch after a candidate invocation depends only on the
\* candidate and the input batches: invoking it twice gives what invoking it
\* once gives, and invoking A then B gives what B alone gives; in
\* single_normalize no policy touches the output translation or scale.
C14_OutputDependsOnCandidateAndInputs == [] C14_States /\ [][C14_Steps]_vars

\* single_normalize: the reactive policy has been invoked MaxIters times after
\* another policy had overwritten the output rotations with other values
C14_Witness ==
    /\ group = "single_normalize"
    /\ count > 0
    /\ InSub
    /\ CurSub.label = "normalize = reactive"
    /\ iters = MaxIters
    /\ \E a \in invoked : a.label = "normalize = false"
    /\ \E i \in DOMAIN params["params"].dst :
          params["params"].dst[i].rotation # TransformIdentity.rotation


\* the length of a batch (a byte buffer keeps its length in a field)
BatchLen(b) == IF group = "memcpy" THEN b.len ELSE Len(b)

\* C15: no candidate loop indexes an array out of bounds, for every element
\* count including 0: no invocation panics; every input array of a parameter
\* struct is at least as long as its output batch; every entry of the indirect
\* smoothstep index array is less than the length of the source array; and
\* with count 0 the batches are empty and an invocation writes nothing.
C15_NoOutOfBounds ==
    /\ ~crashed
    /\ (InSub /\ group # "rand") =>
          LET p == params[CurSub.ps]
          IN  /\ \A k \in DOMAIN p.src : BatchLen(p.src[k]) >= BatchLen(p.dst)
              /\ ~Invoke(CurSub.cand, p).panicked
              /\ Invoke(CurSub.cand, p).writes = BatchLen(p.dst)
              /\ group = "smoothstep_indirect" =>
                    \A i \in 1..Len(p.dst) : p.src[2][i] < Len(p.src[1])
              /\ (group # "memcpy" /\ count = 0) =>
                    /\ Len(p.dst) = 0
                    /\ \A k \in DOMAIN p.src : Len(p.src[k]) = 0
                    /\ iters >= 1 => work = 0

\* a candidate of a sized group has been invoked MaxIters times on empty
\* batches
C15_Witness ==
    /\ group \in SizedGroups
    /\ count = 0
    /\ InSub
    /\ iters = MaxIters
    /\ work = 0
    /\ ~crashed


====
